---- MODULE Spec2Model ----
(***************************************************************************)
(* Mix preview of DJMashAI (frontend/src/App.jsx): the preview session     *)
(* life cycle (playPreview / stopPreview / ended callbacks), the schedule  *)
(* playPreview computes from the mix plan, the editor (slots, analysis,    *)
(* mix-plan request) and the side players (stem preview, commentary).      *)
(*                                                                         *)
(* Positions are 1-based here: position i of the model is index i-1 of     *)
(* the JavaScript arrays (order, buffers, transitions, mixStartTime).      *)
(* Times are whole seconds.  Times of a scheduled source are relative to   *)
(* `now` (ctx.currentTime at scheduling), so toCtx(mixT) = mixT - skipTo.  *)
(* An optional JSON field is <<>> when null/undefined and <<v>> otherwise. *)
(***************************************************************************)
EXTENDS Integers, Sequences, FiniteSets, TLC

VARIABLES
    analyzedTracks,                   \* useState([])  : <<[duration, sourceFile]>>
    mixPlan,                          \* useState(null): <<>> or <<[order, transitions]>>
    previewStartFromFirstTransition,  \* useState(false)
    isPreviewPlaying,                 \* useState(false)
    previewError,                     \* useState(null): "" is null
    audioContextRef,                  \* useRef(null)  : 0 is null, else a context id
    scheduledSourcesRef,              \* useRef([])    : the sources stored by playPreview
    closeCalls,                       \* per created AudioContext: number of close() calls
    calls,                            \* per playPreview call past its entry checks: where it is suspended
    started,                          \* sources start() was called on, neither stopped nor ended yet
    stopped,                          \* sources stopPreview stopped whose onended has still to run
    stopLog                           \* observation of the current run of consecutive stopPreview calls

VARIABLES
    slots,                            \* useState([{id, file: null, youtubeUrl: ""}])
    loadingAnalyze,                   \* useState(false)
    loadingMixPlan,                   \* useState(false)
    error,                            \* useState(null): "" is null
    analyzeRequest,                   \* the /analyze-batch fetch in flight: <<>> or <<[content, layout, urls, files]>>
    mixPlanRequest,                   \* the /mix-plan fetch in flight: <<>> or <<number of tracks sent>>
    loadingStemTransitionIndex,       \* useState(null): 0 is null, else a transition position
    stemTransitionError,              \* useState(null): "" is null
    stemRequests,                     \* per transition position: playStemTransition calls awaiting their fetch
    commentaryAudioRef,               \* useRef(null): 0 is null, else an Audio element
    audios                            \* the Audio elements playCommentaryLine created, by creation order

editVars == <<slots, loadingAnalyze, loadingMixPlan, error, analyzeRequest, mixPlanRequest>>

sideVars == <<loadingStemTransitionIndex, stemTransitionError, stemRequests,
              commentaryAudioRef, audios>>

vars == <<analyzedTracks, mixPlan, previewStartFromFirstTransition, isPreviewPlaying,
          previewError, audioContextRef, scheduledSourcesRef, closeCalls, calls,
          started, stopped, stopLog, editVars, sideVars>>

previewVars == <<previewStartFromFirstTransition, isPreviewPlaying, previewError,
                 audioContextRef, scheduledSourcesRef, closeCalls, calls, started, stopped>>

planVars == <<analyzedTracks, mixPlan, previewStartFromFirstTransition>>

\* what the preview handlers never write: the plan, the editor, the side players
restVars == <<planVars, editVars, sideVars>>

----------------------------------------------------------------------------
(* Bounds of the model *)

MaxCalls == 2          \* playPreview calls that get past the entry checks
MaxTracks == 2         \* tracks of a plan in the life-cycle specification
SfxClipSec == 1        \* duration of a decoded sound-effect clip (server data)
MaxSchedTracks == 3    \* tracks of a plan in the schedule specification
MaxSlots == 2          \* track slots of the form
MaxStemRequests == 1   \* playStemTransition calls in flight for one transition
MaxAudios == 3         \* Audio elements playCommentaryLine creates

(* Program constants *)

DefaultCrossfadeSec == 8     \* crossfade_duration_sec ?? 8
OpenHz == 20000              \* filter frequency at creation and at the end of the entry sweep
MuffledHz == 500             \* low-pass corner at the start of the entry sweep
BassCutLowHz == 30           \* high-pass corner at rampStart
BassCutHighHz == 1800        \* high-pass corner at rampEnd

----------------------------------------------------------------------------
(* Optional values and small helpers *)

Null == <<>>
Some(v) == <<v>>
OrElse(o, d) == IF o = <<>> THEN d ELSE o[1]      \* o ?? d
Min(a, b) == IF a <= b THEN a ELSE b              \* Math.min
Max(a, b) == IF a >= b THEN a ELSE b              \* Math.max

NoError == ""
MissingFileError == "Mix preview only works when all tracks were uploaded as files"
DecodeError == "Could not decode audio"

----------------------------------------------------------------------------
(* Derived render values *)

\* analyzedTracks[i] for an index with no entry
Undefined == [undefined |-> TRUE]

orderedTracks ==
    IF mixPlan # Null
    THEN [i \in 1..Len(mixPlan[1].order) |->
             IF mixPlan[1].order[i] \in 1..Len(analyzedTracks)
             THEN analyzedTracks[mixPlan[1].order[i]]
             ELSE Undefined]
    ELSE <<>>

\* the mix-plan section renders: no ordered track is undefined (reading a field of
\* an undefined track throws a TypeError in render)
renderable == \A i \in 1..Len(orderedTracks) : orderedTracks[i] # Undefined

transitions == IF mixPlan # Null THEN mixPlan[1].transitions ELSE <<>>

\* mutant: the entry check for a missing source file is dropped
missingIgnored == FALSE

\* is some ordered track without a sourceFile
missing == \E i \in 1..Len(orderedTracks) : ~orderedTracks[i].sourceFile

\* buffers[i].duration of a decoded track
duration(i) == orderedTracks[i].duration

----------------------------------------------------------------------------
(* The schedule of playPreview *)

\* mutant: each offset is the transition start alone, not added to the offset before
MixStartTimeNotSummed(tr, acc) ==
    [i \in 1..(Len(tr) + 1) |->
        IF i = 1 THEN 0 ELSE OrElse(tr[i - 1].transition_start_time, 0)]

RECURSIVE MixStartTimeFrom(_, _)
MixStartTimeFrom(tr, acc) ==
    IF Len(acc) > Len(tr) THEN acc
    ELSE MixStartTimeFrom(tr,
            Append(acc, acc[Len(acc)] + OrElse(tr[Len(acc)].transition_start_time, 0)))

mixStartTime == MixStartTimeFrom(transitions, <<0>>)

\* the mix timeline of the render (beat grid, transition highlight)
mixStartTimeSec ==
    IF Len(transitions) > 0 THEN MixStartTimeFrom(transitions, <<0>>)
    ELSE IF Len(orderedTracks) # 0 THEN <<0>> ELSE <<>>

\* mutant: the mix ends where its last track starts
mixDurationNoLast ==
    IF Len(orderedTracks) # 0 /\ Len(mixStartTimeSec) = Len(orderedTracks)
    THEN mixStartTimeSec[Len(mixStartTimeSec)]
    ELSE 0

\* features?.duration_sec ?? 0 of the last ordered track, after the last mix offset
mixDurationSec ==
    IF Len(orderedTracks) # 0 /\ Len(mixStartTimeSec) = Len(orderedTracks)
    THEN mixStartTimeSec[Len(mixStartTimeSec)]
         + OrElse(orderedTracks[Len(orderedTracks)].duration_sec, 0)
    ELSE 0

skipTo ==
    IF previewStartFromFirstTransition /\ Len(mixStartTime) > 1 THEN mixStartTime[2] ELSE 0

\* const toCtx = (mixT) => now + (mixT - skipTo), relative to now
toCtx(mixT) == mixT - skipTo

\* (transition_sound || "whoosh").toLowerCase()
ToLowerCase(s) ==
    CASE s = "Whoosh" -> "whoosh"
      [] s = "NONE" -> "none"
      [] OTHER -> s

soundType(k) ==
    ToLowerCase(IF transitions[k].transition_sound = "" THEN "whoosh"
                ELSE transitions[k].transition_sound)

\* the `continue` of the track loop: endMix <= skipTo (false when startMix is undefined)
skipped(i) == i <= Len(mixStartTime) /\ mixStartTime[i] + duration(i) <= skipTo

\* mutant: incoming_start_offset is not looked at
bufferOffsetSkipOnly(i) ==
    IF mixStartTime[i] < skipTo THEN skipTo - mixStartTime[i] ELSE 0

\* mutant: the skip point does not move the offset
bufferOffsetNoSkip(i) ==
    IF i > 1 /\ transitions[i - 1].incoming_start_offset # Null
    THEN transitions[i - 1].incoming_start_offset[1]
    ELSE 0

bufferOffset(i) ==
    IF i > 1 /\ transitions[i - 1].incoming_start_offset # Null
    THEN transitions[i - 1].incoming_start_offset[1]
    ELSE IF mixStartTime[i] < skipTo THEN skipTo - mixStartTime[i] ELSE 0

\* mutant: the start time is not clamped to now
startCtxUnclamped(i) == mixStartTime[i] - skipTo

startCtx(i) == IF mixStartTime[i] >= skipTo THEN mixStartTime[i] - skipTo ELSE 0

\* i < buffers.length - 1 && transitions[i]
hasOutgoing(i) == i < Len(orderedTracks) /\ i <= Len(transitions)

tEnd(i) ==
    IF transitions[i].transition_end_time # Null
    THEN transitions[i].transition_end_time[1]
    ELSE OrElse(transitions[i].transition_start_time, 0)
         + OrElse(transitions[i].crossfade_duration_sec, DefaultCrossfadeSec)

playDuration(i) ==
    IF hasOutgoing(i)
    THEN Min(duration(i) - bufferOffset(i), Max(0, tEnd(i) - bufferOffset(i)))
    ELSE duration(i) - bufferOffset(i)

stopCtx(i) == startCtx(i) + playDuration(i)

crossfadeInSec(i) ==
    IF i > 1
    THEN Min(OrElse(transitions[i - 1].crossfade_duration_sec, DefaultCrossfadeSec),
             duration(i) - bufferOffset(i))
    ELSE 0

----------------------------------------------------------------------------
(* Gain automation.  A gain value is a fraction <<numerator, denominator>>   *)
(* with a positive denominator; an automation event is the call made on     *)
(* gainNode.gain, in call order: op "set" is setValueAtTime, op "ramp" is   *)
(* linearRampToValueAtTime, time is relative to now.                        *)

Zero == <<0, 1>>
One == <<1, 1>>

\* mutant: gainAtMixTime without its window test
outsideWindowNever(i, t) == FALSE

\* t < startMix || t >= startMix + dur
outsideWindow(i, t) == t < mixStartTime[i] \/ t >= mixStartTime[i] + duration(i)

\* the ramp-out part of gainAtMixTime for a track with transitions[i]
fadeOutGain(i, t) ==
    LET tst == OrElse(transitions[i].transition_start_time, 0)
        rampStartMix == mixStartTime[i] + tst
        crossfadeOut == Min(OrElse(transitions[i].crossfade_duration_sec, DefaultCrossfadeSec),
                            duration(i) - tst)
        rampEndMix == rampStartMix + crossfadeOut
    IN IF t < rampStartMix THEN One
       ELSE IF t >= rampEndMix THEN Zero
       ELSE <<crossfadeOut - (t - rampStartMix), crossfadeOut>>

gainAtMixTime(i, t) ==
    IF outsideWindow(i, t) THEN Zero
    ELSE IF i = 1
         THEN IF Len(transitions) < 1 THEN One ELSE fadeOutGain(1, t)
         ELSE LET crossfadeIn ==
                     Min(OrElse(transitions[i - 1].crossfade_duration_sec, DefaultCrossfadeSec),
                         duration(i))
              IN IF t < mixStartTime[i] + crossfadeIn
                 THEN <<t - mixStartTime[i], crossfadeIn>>
                 ELSE IF i > Len(transitions) THEN One ELSE fadeOutGain(i, t)

rampStart(i) ==
    IF i <= Len(transitions)
    THEN mixStartTime[i] + OrElse(transitions[i].transition_start_time, 0)
    ELSE mixStartTime[i]

\* mutant: the ramp-out has no length
rampEndAtStart(i) == rampStart(i)

rampEnd(i) ==
    IF i <= Len(transitions)
    THEN IF transitions[i].transition_end_time # Null
         THEN transitions[i].transition_end_time[1]
         ELSE rampStart(i)
              + Min(OrElse(transitions[i].crossfade_duration_sec, DefaultCrossfadeSec),
                    duration(i) - OrElse(transitions[i].transition_start_time, 0))
    ELSE rampStart(i)

GainEvent(op, value, time) == [op |-> op, value |-> value, time |-> time]

\* the fade-in of a track that began before the skip point
fadeInRest(i) ==
    LET fadeEnd == mixStartTime[i]
                   + Min(OrElse(transitions[i - 1].crossfade_duration_sec, DefaultCrossfadeSec),
                         duration(i))
    IN IF fadeEnd > skipTo
       THEN <<GainEvent("ramp", One, toCtx(Min(fadeEnd, mixStartTime[i] + duration(i))))>>
       ELSE <<>>

\* the calls on gainNode.gain for the track at position i, in call order
gainEvents(i) ==
    <<GainEvent("set", gainAtMixTime(i, skipTo), 0)>>
    \o (IF i > 1 /\ mixStartTime[i] < skipTo THEN fadeInRest(i) ELSE <<>>)
    \o (IF i > 1 /\ mixStartTime[i] >= skipTo
        THEN <<GainEvent("set", Zero, startCtx(i)),
               GainEvent("ramp", One, startCtx(i) + crossfadeInSec(i))>>
        ELSE <<>>)
    \o (IF hasOutgoing(i) /\ rampEnd(i) > skipTo
        THEN <<GainEvent("set", One, toCtx(rampStart(i))),
               GainEvent("ramp", Zero, toCtx(rampEnd(i)))>>
        ELSE <<>>)

----------------------------------------------------------------------------
(* Filter automation.  filterNode.type is a plain attribute: the last value  *)
(* assigned in the iteration is the type of the filter for the whole         *)
(* segment.  The frequency events are the calls on filterNode.frequency.     *)

FreqEvent(op, value, time) == [op |-> op, value |-> value, time |-> time]

\* the entry sweep is programmed: i > 0 && startMix >= skipTo
hasEntrySweep(i) == i > 1 /\ mixStartTime[i] >= skipTo

\* the exit sweep is programmed: i < buffers.length - 1 && transitions[i] && rampEnd > skipTo
hasExitSweep(i) == hasOutgoing(i) /\ rampEnd(i) > skipTo

filterType(i) == IF hasExitSweep(i) THEN "highpass" ELSE "lowpass"

\* the calls on filterNode.frequency for the track at position i, in call order
freqEvents(i) ==
    <<FreqEvent("set", OpenHz, 0)>>
    \o (IF hasEntrySweep(i)
        THEN <<FreqEvent("set", MuffledHz, startCtx(i)),
               FreqEvent("ramp", OpenHz, startCtx(i) + crossfadeInSec(i))>>
        ELSE <<>>)
    \o (IF hasExitSweep(i)
        THEN <<FreqEvent("set", BassCutLowHz, toCtx(rampStart(i))),
               FreqEvent("ramp", BassCutHighHz, toCtx(rampEnd(i)))>>
        ELSE <<>>)

\* the track loop throws at position i: transitions[i - 1] is undefined (TypeError),
\* or start() is given a negative offset or duration (RangeError)
raises(i) ==
    \/ i > 1 /\ i - 1 > Len(transitions)
    \/ bufferOffset(i) < 0
    \/ playDuration(i) < 0

firstRaise ==
    LET bad == {i \in 1..Len(orderedTracks) : ~skipped(i) /\ raises(i)}
    IN IF bad = {} THEN Len(orderedTracks) + 1
       ELSE CHOOSE i \in bad : \A j \in bad : i <= j

trackSource(c, i) ==
    [ctx |-> c, kind |-> "track", pos |-> i, startCtx |-> startCtx(i),
     bufferOffset |-> bufferOffset(i), playDuration |-> playDuration(i),
     stopCtx |-> stopCtx(i), gain |-> gainEvents(i),
     filterType |-> filterType(i), freq |-> freqEvents(i)]

trackSources(c) ==
    {trackSource(c, i) : i \in {j \in 1..(firstRaise - 1) : ~skipped(j)}}

\* mutant: a cue is scheduled wherever it falls, before now too
cuePositionsAnyTime(sfxCache) ==
    {k \in 1..Len(transitions) : soundType(k) # "none" /\ soundType(k) \in sfxCache}

\* mutant: only the first transition gets its sound effect
cuePositionsFirstOnly(sfxCache) ==
    {k \in 1..Min(1, Len(transitions)) : soundType(k) # "none" /\ soundType(k) \in sfxCache}

\* transitions that get a sound effect, given the clips fetched
cuePositions(sfxCache) ==
    {k \in 1..Len(transitions) :
        /\ soundType(k) # "none"
        /\ soundType(k) \in sfxCache
        /\ mixStartTime[k + 1] - skipTo >= 0}

sfxSource(c, k) ==
    [ctx |-> c, kind |-> "sfx", pos |-> k, startCtx |-> mixStartTime[k + 1] - skipTo,
     bufferOffset |-> 0, playDuration |-> SfxClipSec,
     stopCtx |-> mixStartTime[k + 1] - skipTo + SfxClipSec, gain |-> <<>>,
     filterType |-> "none", freq |-> <<>>]

sfxSources(c, sfxCache) == {sfxSource(c, k) : k \in cuePositions(sfxCache)}

\* mutant: the prefetch loop does not look into the cache
nextFetchUncached(from, sfxCache) ==
    LET need == {k \in from..Len(transitions) : soundType(k) # "none"}
    IN IF need = {} THEN 0 ELSE CHOOSE k \in need : \A j \in need : k <= j

\* first transition at or after `from` whose sound effect must be fetched; 0 if none
nextFetch(from, sfxCache) ==
    LET need == {k \in from..Len(transitions) :
                    soundType(k) # "none" /\ soundType(k) \notin sfxCache}
    IN IF need = {} THEN 0 ELSE CHOOSE k \in need : \A j \in need : k <= j

----------------------------------------------------------------------------
(* Audio contexts and sources *)

Contexts == 1..Len(closeCalls)
isOpen(c) == c \in Contexts /\ closeCalls[c] = 0
openContexts == {c \in Contexts : isOpen(c)}

\* a started source that can still produce audio
audible(s) == s \in started /\ isOpen(s.ctx)

NoStop == [n |-> 0, closes |-> 0, hadCtx |-> FALSE, hadSources |-> FALSE]

----------------------------------------------------------------------------
(* stopPreview *)

\* mutant: stopPreview does not close the context it holds
closeTargetsNone == {}

\* the contexts stopPreview calls close() on
closeTargets == IF audioContextRef # 0 THEN {audioContextRef} ELSE {}

\* mutant: stopPreview keeps the closed context in audioContextRef
refAfterStopKept == audioContextRef

\* audioContextRef.current = null
refAfterStop == 0

closeAll(cc, targets) == [c \in 1..Len(cc) |-> IF c \in targets THEN cc[c] + 1 ELSE cc[c]]

\* the ordered tracks a playPreview call closed over: the render values of the state
\* it was called in, which the call keeps through its awaits
closureTracks(c) == Len(calls[c].closure[2][1].order)

\* if (i === buffers.length - 1) setIsPreviewPlaying(false), buffers being those of
\* the call that created the source
isLastTrack(s) == s.kind = "track" /\ s.pos = closureTracks(s.ctx)

\* s.stop() on every stored source.  A stopped source is silent; its ended event
\* is still dispatched, and is kept only where onended does something.
stopAll(srcs) == {s \in srcs \cap started : isLastTrack(s)}

StopPreview ==
    /\ started' = started \ scheduledSourcesRef
    /\ stopped' = stopped \cup stopAll(scheduledSourcesRef)
    /\ scheduledSourcesRef' = {}
    /\ closeCalls' = closeAll(closeCalls, closeTargets)
    /\ audioContextRef' = refAfterStop
    /\ isPreviewPlaying' = FALSE
    /\ previewError' = NoError
    /\ stopLog' = IF stopLog.n = 0
                  THEN [n |-> 1, closes |-> Cardinality(closeTargets),
                        hadCtx |-> audioContextRef # 0,
                        hadSources |-> scheduledSourcesRef # {}]
                  ELSE [stopLog EXCEPT !.n = 2,
                                       !.closes = @ + Cardinality(closeTargets)]
    /\ UNCHANGED <<restVars, calls>>

----------------------------------------------------------------------------
(* playPreview *)

\* mutant: without every clip the call gives up before the track loop
ScheduleNeedsClips(c, cl, sfxCache) ==
    IF \A k \in 1..Len(transitions) : soundType(k) = "none" \/ soundType(k) \in sfxCache
    THEN /\ started' = started \cup trackSources(c) \cup sfxSources(c, sfxCache)
         /\ calls' = [cl EXCEPT ![c].pc = "done"]
         /\ scheduledSourcesRef' = trackSources(c) \cup sfxSources(c, sfxCache)
         /\ isPreviewPlaying' = TRUE
    ELSE /\ calls' = [cl EXCEPT ![c].pc = "threw"]
         /\ UNCHANGED <<started, scheduledSourcesRef, isPreviewPlaying>>

\* the synchronous tail of playPreview once every buffer and clip is there
Schedule(c, cl, sfxCache) ==
    LET threw == firstRaise <= Len(orderedTracks)
        sources == IF threw THEN trackSources(c)
                   ELSE trackSources(c) \cup sfxSources(c, sfxCache)
    IN /\ started' = started \cup sources
       /\ IF threw
          THEN /\ calls' = [cl EXCEPT ![c].pc = "threw"]
               /\ UNCHANGED <<scheduledSourcesRef, isPreviewPlaying>>
          ELSE /\ calls' = [cl EXCEPT ![c].pc = "done"]
               /\ scheduledSourcesRef' = sources
               /\ isPreviewPlaying' = TRUE

\* the sound-effect prefetch loop from transition `from` on, then the schedule
Continue(c, cl, sfxCache, from) ==
    LET k == nextFetch(from, sfxCache)
    IN IF k # 0
       THEN /\ calls' = [cl EXCEPT ![c].pc = "sfx", ![c].k = k, ![c].sfxCache = sfxCache]
            /\ UNCHANGED <<scheduledSourcesRef, isPreviewPlaying, started>>
       ELSE Schedule(c, [cl EXCEPT ![c].sfxCache = sfxCache], sfxCache)

\* mutant: scheduling begins as soon as one track is decoded
allDecodedEarly(k) == k >= 1

\* every track of the order is decoded after the k-th
allDecoded(k) == k = Len(orderedTracks)

\* mutant: the new context is not stored, audioContextRef stays null
newContextRefNotStored == refAfterStop

\* audioContextRef.current = ctx, the context just created
newContextRef == Len(closeCalls) + 1

PlayPreview(limit) ==
    \/ /\ mixPlan = Null \/ Len(orderedTracks) = 0
       /\ stopLog' = NoStop
       /\ UNCHANGED <<restVars, isPreviewPlaying, previewError, audioContextRef,
                      scheduledSourcesRef, closeCalls, calls, started, stopped>>
    \/ /\ mixPlan # Null /\ Len(orderedTracks) # 0
       /\ missing
       /\ previewError' = MissingFileError
       /\ stopLog' = NoStop
       /\ UNCHANGED <<restVars, isPreviewPlaying, audioContextRef, scheduledSourcesRef,
                      closeCalls, calls, started, stopped>>
    \/ /\ mixPlan # Null /\ Len(orderedTracks) # 0
       /\ ~missing
       /\ Len(calls) < limit
       /\ started' = started \ scheduledSourcesRef
       /\ stopped' = stopped \cup stopAll(scheduledSourcesRef)
       /\ scheduledSourcesRef' = {}
       /\ closeCalls' = Append(closeAll(closeCalls, closeTargets), 0)
       /\ audioContextRef' = newContextRef
       /\ isPreviewPlaying' = FALSE
       /\ previewError' = NoError
       /\ calls' = Append(calls, [pc |-> "decode", k |-> 1, buffers |-> 0, sfxCache |-> {},
                               closure |-> planVars])
       /\ stopLog' = NoStop
       /\ UNCHANGED restVars

DecodeOk(c) ==
    /\ calls[c].pc = "decode"
    /\ orderedTracks[calls[c].k].sourceFile
    /\ LET k == calls[c].k
           cl == [calls EXCEPT ![c].buffers = @ + 1]
       IN IF allDecoded(k)
          THEN Continue(c, cl, {}, 1)
          ELSE /\ calls' = [cl EXCEPT ![c].k = k + 1]
               /\ UNCHANGED <<scheduledSourcesRef, isPreviewPlaying, started>>
    /\ stopLog' = NoStop
    /\ UNCHANGED <<restVars, previewError, audioContextRef, closeCalls, stopped>>

DecodeFail(c) ==
    /\ calls[c].pc = "decode"
    /\ previewError' = DecodeError
    /\ closeCalls' = closeAll(closeCalls, {c})
    /\ calls' = [calls EXCEPT ![c].pc = "error"]
    /\ stopLog' = NoStop
    /\ UNCHANGED <<restVars, isPreviewPlaying, audioContextRef, scheduledSourcesRef,
                   started, stopped>>

SfxOk(c) ==
    /\ calls[c].pc = "sfx"
    /\ Continue(c, calls, calls[c].sfxCache \cup {soundType(calls[c].k)}, calls[c].k + 1)
    /\ stopLog' = NoStop
    /\ UNCHANGED <<restVars, previewError, audioContextRef, closeCalls, stopped>>

SfxFail(c) ==
    /\ calls[c].pc = "sfx"
    /\ Continue(c, calls, calls[c].sfxCache, calls[c].k + 1)
    /\ stopLog' = NoStop
    /\ UNCHANGED <<restVars, previewError, audioContextRef, closeCalls, stopped>>

----------------------------------------------------------------------------
(* src.onended *)

\* the ended event of s can be dispatched: stop() was called on it, or its context
\* runs and no source of the context is due to finish before it
canEnd(s) ==
    \/ s \in stopped
    \/ /\ s \in started
       /\ isOpen(s.ctx)
       /\ \A s2 \in started : s2.ctx = s.ctx => s2.stopCtx >= s.stopCtx

Ended(s) ==
    /\ canEnd(s)
    /\ started' = started \ {s}
    /\ stopped' = stopped \ {s}
    /\ isPreviewPlaying' = IF isLastTrack(s) THEN FALSE ELSE isPreviewPlaying
    /\ stopLog' = NoStop
    /\ UNCHANGED <<restVars, previewError, audioContextRef, scheduledSourcesRef,
                   closeCalls, calls>>

----------------------------------------------------------------------------
(* Inputs *)

Transition(tst, cf, te, off, snd) ==
    [transition_start_time |-> tst, crossfade_duration_sec |-> cf,
     transition_end_time |-> te, incoming_start_offset |-> off, transition_sound |-> snd]

\* a track of d seconds: its decoded buffer and its analysed features.duration_sec
Track(d, f) == [duration |-> d, sourceFile |-> f, duration_sec |-> Some(d)]

\* a plan of n tracks of 6 s (track m without a file) and t transitions at 4 s
LifePlan(n, t, m, snd) ==
    [tracks |-> [i \in 1..n |-> Track(6, i # m)],
     plan |-> Some([order |-> [i \in 1..n |-> i],
                    transitions |-> [k \in 1..t |-> Transition(Some(4), Some(2), Null, Null, snd)]])]

\* a plan whose last track (6 s) is shorter than the crossfade into it (8 s, from 4 s
\* into a first track of 12 s)
ShortLastPlan ==
    [tracks |-> <<Track(12, TRUE), Track(6, TRUE)>>,
     plan |-> Some([order |-> <<1, 2>>,
                    transitions |-> <<Transition(Some(4), Null, Null, Null, "none")>>])]

\* plans of the life-cycle specification: none yet (the state after construction),
\* or a plan with one transition less than, as many as, or one more than it needs
LifePlans ==
    {[tracks |-> <<>>, plan |-> Null], ShortLastPlan} \cup
    UNION {{LifePlan(n, t, m, snd) :
                t \in {x \in (n - 2)..n : x >= 0}, m \in {0, 1}, snd \in {"none", "Whoosh"}}
           : n \in 1..MaxTracks}

----------------------------------------------------------------------------
(* The track slots *)

NoFile == ""
Files == {"a.mp3"}
Urls == {"", " ", "https://youtu.be/x"}

\* String.prototype.trim on the URLs above
trim(u) == IF u = " " THEN "" ELSE u

Slot(id, file, url) == [id |-> id, file |-> file, youtubeUrl |-> url]

slotIds(s) == {s[j].id : j \in 1..Len(s)}

\* nextId(): Math.random().toString(36).slice(2), a random string of about eleven
\* base-36 digits, taken to differ from the ids of the slots in the list
nextId == CHOOSE id \in 1..(Len(slots) + 1) : id \notin slotIds(slots)

NoContentError == "Add at least one track: upload an audio file or paste a YouTube link."
TooFewTracksError == "Analyze at least 2 tracks to generate a mix plan."
AnalyzeError == "Analysis failed."
MixPlanError == "Mix plan failed."
MissingStemFileError == "Stem preview needs both tracks as uploaded files (no YouTube)."
StemError == "Stem transition failed."

addSlot ==
    /\ Len(slots) < MaxSlots
    /\ slots' = Append(slots, Slot(nextId, NoFile, ""))
    /\ error' = NoError
    /\ UNCHANGED <<analyzedTracks, mixPlan, loadingAnalyze, loadingMixPlan,
                   analyzeRequest, mixPlanRequest>>

\* mutant: the last slot can be removed too
removedAlways(s, id) == SelectSeq(s, LAMBDA x : x.id # id)

\* s.length > 1 ? s.filter((x) => x.id !== id) : s
removed(s, id) == IF Len(s) > 1 THEN SelectSeq(s, LAMBDA x : x.id # id) ELSE s

removeSlot(id) ==
    /\ slots' = removed(slots, id)
    /\ analyzedTracks' = <<>>
    /\ mixPlan' = Null
    /\ error' = NoError
    /\ UNCHANGED <<loadingAnalyze, loadingMixPlan, analyzeRequest, mixPlanRequest>>

\* the updates the inputs of a slot make: a file chosen or cleared, the URL edited
SlotUpdates ==
    {[field |-> "file", value |-> f] : f \in Files \cup {NoFile}}
        \cup {[field |-> "youtubeUrl", value |-> u] : u \in Urls}

updated(x, upd) ==
    IF upd.field = "file" THEN [x EXCEPT !.file = upd.value]
    ELSE [x EXCEPT !.youtubeUrl = upd.value]

updateSlot(id, upd) ==
    /\ slots' = [j \in 1..Len(slots) |->
                    IF slots[j].id = id THEN updated(slots[j], upd) ELSE slots[j]]
    /\ error' = NoError
    /\ UNCHANGED <<analyzedTracks, mixPlan, loadingAnalyze, loadingMixPlan,
                   analyzeRequest, mixPlanRequest>>

----------------------------------------------------------------------------
(* handleAnalyze *)

hasFile(x) == x.file # NoFile
hasUrl(x) == trim(x.youtubeUrl) # ""

\* s.file || (s.youtubeUrl && s.youtubeUrl.trim())
hasContent(x) == hasFile(x) \/ hasUrl(x)

slotsWithContent == SelectSeq(slots, hasContent)

\* the form data of the /analyze-batch request: layout (null without a YouTube
\* link), youtube_urls and files, and the slots the call keeps for the response
formData(content) ==
    IF \E j \in 1..Len(content) : hasUrl(content[j])
    THEN [content |-> content,
          layout |-> Some([j \in 1..Len(content) |->
                              IF hasFile(content[j]) THEN "file" ELSE "youtube"]),
          urls |-> LET u == SelectSeq(content, hasUrl)
                   IN [j \in 1..Len(u) |-> trim(u[j].youtubeUrl)],
          files |-> LET f == SelectSeq(content, hasFile)
                    IN [j \in 1..Len(f) |-> f[j].file]]
    ELSE [content |-> content,
          layout |-> Null,
          urls |-> <<>>,
          files |-> [j \in 1..Len(content) |-> content[j].file]]

\* the submit button is disabled while loadingAnalyze, so one request is in flight
handleAnalyze ==
    /\ ~loadingAnalyze
    /\ IF Len(slotsWithContent) = 0
       THEN /\ error' = NoContentError
            /\ UNCHANGED <<analyzedTracks, mixPlan, loadingAnalyze, analyzeRequest>>
       ELSE /\ error' = NoError
            /\ analyzedTracks' = <<>>
            /\ mixPlan' = Null
            /\ loadingAnalyze' = TRUE
            /\ analyzeRequest' = Some(formData(slotsWithContent))
    /\ UNCHANGED <<slots, loadingMixPlan, mixPlanRequest>>

\* the analysed tracks set from a response with one item per submitted slot
analyzed(content) == [j \in 1..Len(content) |-> Track(6, hasFile(content[j]))]

AnalyzeOk ==
    /\ analyzeRequest # Null
    /\ analyzedTracks' = analyzed(analyzeRequest[1].content)
    /\ loadingAnalyze' = FALSE
    /\ analyzeRequest' = Null
    /\ UNCHANGED <<mixPlan, slots, loadingMixPlan, error, mixPlanRequest>>

AnalyzeFail ==
    /\ analyzeRequest # Null
    /\ error' = AnalyzeError
    /\ loadingAnalyze' = FALSE
    /\ analyzeRequest' = Null
    /\ UNCHANGED <<analyzedTracks, mixPlan, slots, loadingMixPlan, mixPlanRequest>>

----------------------------------------------------------------------------
(* handleGenerateMixPlan *)

\* the submit button is disabled while loadingMixPlan, so one request is in flight
handleGenerateMixPlan ==
    /\ ~loadingMixPlan
    /\ IF Len(analyzedTracks) < 2
       THEN /\ error' = TooFewTracksError
            /\ UNCHANGED <<mixPlan, loadingMixPlan, mixPlanRequest>>
       ELSE /\ error' = NoError
            /\ mixPlan' = Null
            /\ loadingMixPlan' = TRUE
            /\ mixPlanRequest' = Some(Len(analyzedTracks))
    /\ UNCHANGED <<analyzedTracks, slots, loadingAnalyze, analyzeRequest>>

\* setMixPlan(data): the server's plan for the n tracks it was sent, in their order
planSet(n) == LifePlan(n, n - 1, 0, "none").plan

MixPlanOk ==
    /\ mixPlanRequest # Null
    /\ mixPlan' = planSet(mixPlanRequest[1])
    /\ loadingMixPlan' = FALSE
    /\ mixPlanRequest' = Null
    /\ UNCHANGED <<analyzedTracks, slots, loadingAnalyze, error, analyzeRequest>>

MixPlanFail ==
    /\ mixPlanRequest # Null
    /\ error' = MixPlanError
    /\ loadingMixPlan' = FALSE
    /\ mixPlanRequest' = Null
    /\ UNCHANGED <<analyzedTracks, mixPlan, slots, loadingAnalyze, analyzeRequest>>

----------------------------------------------------------------------------
(* playStemTransition *)

stemInFlight == {i \in DOMAIN stemRequests : stemRequests[i] > 0}

\* the button of transition i is disabled while loadingStemTransitionIndex is i
playStemTransition(i) ==
    /\ mixPlan # Null /\ Len(orderedTracks) # 0 /\ i \in 1..Len(transitions)
    /\ i + 1 <= Len(orderedTracks)
    /\ loadingStemTransitionIndex # i
    /\ IF ~(orderedTracks[i].sourceFile /\ orderedTracks[i + 1].sourceFile)
       THEN /\ stemTransitionError' = MissingStemFileError
            /\ UNCHANGED <<loadingStemTransitionIndex, stemRequests>>
       ELSE /\ stemRequests[i] < MaxStemRequests
            /\ stemTransitionError' = NoError
            /\ loadingStemTransitionIndex' = i
            /\ stemRequests' = [stemRequests EXCEPT ![i] = @ + 1]
    /\ UNCHANGED <<commentaryAudioRef, audios>>

\* the fetch of a call for transition i resolves and the clip plays: finally
StemOk(i) ==
    /\ i \in stemInFlight
    /\ loadingStemTransitionIndex' = 0
    /\ stemRequests' = [stemRequests EXCEPT ![i] = @ - 1]
    /\ UNCHANGED <<stemTransitionError, commentaryAudioRef, audios>>

\* the fetch of a call for transition i fails: catch, then finally
StemFail(i) ==
    /\ i \in stemInFlight
    /\ stemTransitionError' = StemError
    /\ loadingStemTransitionIndex' = 0
    /\ stemRequests' = [stemRequests EXCEPT ![i] = @ - 1]
    /\ UNCHANGED <<commentaryAudioRef, audios>>

----------------------------------------------------------------------------
(* playCommentaryLine *)

\* HTMLMediaElement.pause(): playback stops; an element that has reached its end
\* stays so, and an ended event already queued for it is still dispatched
paused(a) == IF a = "playing" THEN "paused" ELSE a

\* base64 decodes (atob returns) or not (atob throws, caught by the empty catch)
playCommentaryLine(decodes) ==
    /\ Len(audios) < MaxAudios
    /\ LET dropped == IF commentaryAudioRef # 0
                      THEN [audios EXCEPT ![commentaryAudioRef] = paused(@)]
                      ELSE audios
       IN IF decodes
          THEN /\ audios' = Append(dropped, "playing")
               /\ commentaryAudioRef' = Len(audios) + 1
          ELSE /\ commentaryAudioRef # 0
               /\ audios' = dropped
               /\ commentaryAudioRef' = 0
    /\ UNCHANGED <<loadingStemTransitionIndex, stemTransitionError, stemRequests>>

\* playback of element a reaches the end of the clip: the browser queues its ended event
PlaybackEnds(a) ==
    /\ audios[a] = "playing"
    /\ audios' = [audios EXCEPT ![a] = "finished"]
    /\ UNCHANGED <<loadingStemTransitionIndex, stemTransitionError, stemRequests,
                   commentaryAudioRef>>

\* audio.onended of element a
CommentaryEnded(a) ==
    /\ audios[a] = "finished"
    /\ audios' = [audios EXCEPT ![a] = "ended"]
    /\ commentaryAudioRef' = 0
    /\ UNCHANGED <<loadingStemTransitionIndex, stemTransitionError, stemRequests>>

----------------------------------------------------------------------------
(* The state of the editor and of the side players after construction *)

EditInit ==
    /\ slots = <<Slot(1, NoFile, "")>>
    /\ loadingAnalyze = FALSE
    /\ loadingMixPlan = FALSE
    /\ error = NoError
    /\ analyzeRequest = Null
    /\ mixPlanRequest = Null

SideInit ==
    /\ loadingStemTransitionIndex = 0
    /\ stemTransitionError = NoError
    /\ stemRequests = [i \in 1..MaxSchedTracks |-> 0]
    /\ commentaryAudioRef = 0
    /\ audios = <<>>

----------------------------------------------------------------------------
(* The preview life cycle over a given plan *)

Init ==
    /\ \E p \in LifePlans :
          /\ analyzedTracks = p.tracks
          /\ mixPlan = p.plan
    /\ previewStartFromFirstTransition = FALSE
    /\ isPreviewPlaying = FALSE
    /\ previewError = NoError
    /\ audioContextRef = 0
    /\ scheduledSourcesRef = {}
    /\ closeCalls = <<>>
    /\ calls = <<>>
    /\ started = {}
    /\ stopped = {}
    /\ stopLog = NoStop
    /\ EditInit
    /\ SideInit

Next ==
    \/ PlayPreview(MaxCalls)
    \/ StopPreview
    \/ \E c \in 1..Len(calls) : DecodeOk(c)
    \/ \E c \in 1..Len(calls) : DecodeFail(c)
    \/ \E c \in 1..Len(calls) : SfxOk(c)
    \/ \E c \in 1..Len(calls) : SfxFail(c)
    \/ \E s \in started \cup stopped : Ended(s)

Spec == Init /\ [][Next]_vars

\* The life cycle with the browser's guarantees: a decode that can complete does, and
\* a source that can end does.  Nothing is assumed of the sound-effect server: a
\* fetch may stay pending for ever.  The user's clicks are not forced either.
Fairness ==
    /\ WF_vars(\E c \in 1..Len(calls) : DecodeOk(c))
    /\ WF_vars(\E s \in started \cup stopped : Ended(s))

SpecLive == Init /\ [][Next]_vars /\ Fairness

----------------------------------------------------------------------------
(* The schedule alone: one playPreview call over a wide family of plans *)

SchedStarts == {Some(3), Some(6)}
SchedCrossfades == {Some(2), Null}
SchedEnds == {Null, Some(7)}
SchedOffsets == {Null, Some(5)}
SchedDurations == {4, 10}

SchedTransitions ==
    {Transition(tst, cf, te, off, "none") :
        tst \in SchedStarts, cf \in SchedCrossfades, te \in SchedEnds, off \in SchedOffsets}

\* plans whose mix offsets can decrease: a transition start before the track start
SchedNegStarts == {Some(-2), Some(6)}

SchedSounds == {"none", "Whoosh"}

SchedNegTransitions ==
    {Transition(tst, Some(2), Null, off, snd) :
        tst \in SchedNegStarts, off \in SchedOffsets, snd \in SchedSounds}

\* the plans of n tracks with n - 1 transitions taken from trs
SchedPlansOf(n, trs) ==
    {[tracks |-> [i \in 1..n |-> Track(d[i], TRUE)],
      plan |-> Some([order |-> [i \in 1..n |-> i], transitions |-> tr])] :
         d \in [1..n -> SchedDurations], tr \in [1..(n - 1) -> trs]}

\* three tracks of 200, 180 and 220 s, handed over at 150 s and 140 s
ScenarioA ==
    [tracks |-> <<Track(200, TRUE), Track(180, TRUE), Track(220, TRUE)>>,
     plan |-> Some([order |-> <<1, 2, 3>>,
                    transitions |-> <<Transition(Some(150), Some(16), Null, Null, "none"),
                                      Transition(Some(140), Some(12), Null, Null, "none")>>])]

\* two tracks of 200 s, handed over at 180 s with a crossfade of 16 s
ScenarioB ==
    [tracks |-> <<Track(200, TRUE), Track(200, TRUE)>>,
     plan |-> Some([order |-> <<1, 2>>,
                    transitions |-> <<Transition(Some(180), Some(16), Null, Null, "none")>>])]

SchedPlans ==
    {ScenarioA, ScenarioB} \cup
    UNION {SchedPlansOf(n, SchedTransitions) \cup SchedPlansOf(n, SchedNegTransitions)
           : n \in 1..MaxSchedTracks}

InitSched ==
    /\ \E p \in SchedPlans :
          /\ analyzedTracks = p.tracks
          /\ mixPlan = p.plan
    /\ previewStartFromFirstTransition \in BOOLEAN
    /\ isPreviewPlaying = FALSE
    /\ previewError = NoError
    /\ audioContextRef = 0
    /\ scheduledSourcesRef = {}
    /\ closeCalls = <<>>
    /\ calls = <<>>
    /\ started = {}
    /\ stopped = {}
    /\ stopLog = NoStop
    /\ EditInit
    /\ SideInit

NextSched ==
    \/ /\ Len(calls) < 1
       /\ PlayPreview(1)
    \/ \E c \in 1..Len(calls) : DecodeOk(c)
    \/ \E c \in 1..Len(calls) : SfxOk(c)
    \/ \E c \in 1..Len(calls) : SfxFail(c)

SpecSched == InitSched /\ [][NextSched]_vars

----------------------------------------------------------------------------
(* The editor: slots, analysis, mix plan and preview from the state after construction *)

InitEdit ==
    /\ analyzedTracks = <<>>
    /\ mixPlan = Null
    /\ previewStartFromFirstTransition = FALSE
    /\ isPreviewPlaying = FALSE
    /\ previewError = NoError
    /\ audioContextRef = 0
    /\ scheduledSourcesRef = {}
    /\ closeCalls = <<>>
    /\ calls = <<>>
    /\ started = {}
    /\ stopped = {}
    /\ stopLog = NoStop
    /\ EditInit
    /\ SideInit

\* what a handler of the editor leaves alone
EditFrame == stopLog' = NoStop /\ UNCHANGED <<previewVars, sideVars>>

\* the handlers run while the page renders; the Stop button is rendered while
\* isPreviewPlaying; a decode resumes the call over the values the call closed over
NextEdit ==
    \/ renderable /\ addSlot /\ EditFrame
    \/ renderable /\ (\E id \in slotIds(slots) : removeSlot(id)) /\ EditFrame
    \/ renderable /\ (\E id \in slotIds(slots) : \E upd \in SlotUpdates : updateSlot(id, upd))
          /\ EditFrame
    \/ renderable /\ handleAnalyze /\ EditFrame
    \/ AnalyzeOk /\ EditFrame
    \/ AnalyzeFail /\ EditFrame
    \/ renderable /\ handleGenerateMixPlan /\ EditFrame
    \/ MixPlanOk /\ EditFrame
    \/ MixPlanFail /\ EditFrame
    \/ renderable /\ PlayPreview(1)
    \/ renderable /\ isPreviewPlaying /\ StopPreview
    \/ \E c \in 1..Len(calls) : calls[c].closure = planVars /\ DecodeOk(c)
    \/ \E s \in started \cup stopped : Ended(s)

SpecEdit == InitEdit /\ [][NextEdit]_vars

----------------------------------------------------------------------------
(* The side players: stem previews and commentary lines over a given plan *)

SidePlans == {LifePlan(MaxSchedTracks, MaxSchedTracks - 1, m, "none") : m \in {0, 1}}

InitSide ==
    /\ \E p \in SidePlans :
          /\ analyzedTracks = p.tracks
          /\ mixPlan = p.plan
    /\ previewStartFromFirstTransition = FALSE
    /\ isPreviewPlaying = FALSE
    /\ previewError = NoError
    /\ audioContextRef = 0
    /\ scheduledSourcesRef = {}
    /\ closeCalls = <<>>
    /\ calls = <<>>
    /\ started = {}
    /\ stopped = {}
    /\ stopLog = NoStop
    /\ EditInit
    /\ SideInit

\* what a handler of the side players leaves alone
SideFrame == UNCHANGED <<planVars, previewVars, stopLog, editVars>>

NextSide ==
    \/ (\E i \in 1..Len(transitions) : playStemTransition(i)) /\ SideFrame
    \/ (\E i \in 1..Len(transitions) : StemOk(i)) /\ SideFrame
    \/ (\E i \in 1..Len(transitions) : StemFail(i)) /\ SideFrame
    \/ (\E decodes \in BOOLEAN : playCommentaryLine(decodes)) /\ SideFrame
    \/ (\E a \in 1..Len(audios) : PlaybackEnds(a)) /\ SideFrame
    \/ (\E a \in 1..Len(audios) : CommentaryEnded(a)) /\ SideFrame

SpecSide == InitSide /\ [][NextSide]_vars

----------------------------------------------------------------------------
(* Properties *)

programVars == <<planVars, isPreviewPlaying, previewError, audioContextRef,
                 scheduledSourcesRef, closeCalls, calls, started, stopped>>

sourcesOf(c) == {s \in started \cup stopped : s.ctx = c}

\* C1: if stopPreview runs while a playPreview call is suspended in a track decode
\* (its context is then closed while it still decodes), the call is abandoned: the
\* step that resumes it starts no source, leaves scheduledSourcesRef alone and does
\* not set isPreviewPlaying to true.
C1_StoppedDecodeIsAbandoned ==
    [][\A c \in 1..Len(calls) :
          (calls[c].pc = "decode" /\ closeCalls[c] > 0 /\ calls'[c] # calls[c])
              => /\ started' \subseteq started
                 /\ scheduledSourcesRef' = scheduledSourcesRef
                 /\ (isPreviewPlaying' => isPreviewPlaying)]_vars

\* C2: close() is invoked at most once on each audio context playPreview created:
\* no second release of an already released context is ever issued.
C2_ContextClosedOnce == \A c \in Contexts : closeCalls[c] <= 1

C4_CompletionReleases ==
    [][\A s \in started :
          (isLastTrack(s) /\ isOpen(s.ctx) /\ s \notin started' /\ s \notin stopped')
              => /\ ~isPreviewPlaying'
                 /\ audioContextRef' = 0
                 /\ closeCalls'[s.ctx] = 1
                 /\ scheduledSourcesRef' = {}]_vars

\* C5: at most one audio context created by playPreview is open at any moment, and
\* the playPreview step that creates a context leaves every earlier context closed
\* and every previously stored source stopped.
C5_OneLiveSession ==
    /\ [](Cardinality(openContexts) <= 1)
    /\ [][Len(closeCalls') > Len(closeCalls) =>
            /\ \A c \in 1..Len(closeCalls) : closeCalls'[c] >= 1
            /\ \A s \in scheduledSourcesRef : s \notin started'
            /\ \A s \in started' : closeCalls'[s.ctx] >= 1]_vars

C5_Witness ==
    /\ Len(calls) = 2
    /\ calls[1].pc = "decode" /\ calls[2].pc = "decode"
    /\ closeCalls[1] = 1 /\ closeCalls[2] = 0

\* C6: right after stopPreview no started source can still produce audio: each one
\* was stopped or belongs to a closed context, also the sources of a playPreview
\* call that threw or was superseded before it stored them in scheduledSourcesRef.
C6_StopSilencesAll ==
    stopLog.n >= 1 => \A s \in started : ~audible(s)

C6_Witness ==
    /\ stopLog.n = 1
    /\ \E c \in 1..Len(calls) :
          /\ calls[c].pc = "threw"
          /\ \E s \in started : s.ctx = c /\ closeCalls[c] = 1

\* C7: no source of a call is started before every track of the order is decoded,
\* and a failed decode aborts the call: the aborting step starts nothing, leaves
\* scheduledSourcesRef and isPreviewPlaying as they were, has no source of the call
\* started or stored, and reports the decode error.
C7_DecodeAllOrNothing ==
    /\ [](\A s \in started \cup stopped \cup scheduledSourcesRef :
             calls[s.ctx].buffers = Len(orderedTracks))
    /\ [][\A c \in 1..Len(calls) :
            (calls[c].pc = "decode" /\ calls'[c].pc = "error")
                => /\ started' = started
                   /\ scheduledSourcesRef' = scheduledSourcesRef
                   /\ isPreviewPlaying' = isPreviewPlaying
                   /\ \A s \in started' \cup scheduledSourcesRef' : s.ctx # c
                   /\ previewError' = DecodeError]_vars

C7_Witness ==
    \E c \in 1..Len(calls) :
        /\ calls[c].pc = "error" /\ calls[c].buffers = 1 /\ Len(orderedTracks) = 2
        /\ previewError = DecodeError /\ sourcesOf(c) = {}

\* C8: when the number of transitions differs from the number of ordered tracks
\* minus one, playPreview starts no source, schedules nothing and does not fail
\* part-way through the scheduling loop.
C8_MismatchRejected ==
    (mixPlan # Null /\ Len(transitions) # Len(orderedTracks) - 1) =>
        /\ started = {} /\ scheduledSourcesRef = {} /\ ~isPreviewPlaying
        /\ \A c \in 1..Len(calls) : calls[c].pc # "threw"

\* C9: when a track of the order has no source file, a playPreview call sets the
\* preview error and returns: it creates no audio context, decodes and starts
\* nothing, and leaves scheduledSourcesRef, audioContextRef and isPreviewPlaying
\* unchanged.
C9_MissingFileRejected ==
    [][((\E i \in 1..Len(orderedTracks) : ~orderedTracks[i].sourceFile)
          /\ PlayPreview(MaxCalls))
        => /\ previewError' = MissingFileError
           /\ UNCHANGED <<closeCalls, calls, started, stopped, scheduledSourcesRef,
                          audioContextRef, isPreviewPlaying>>]_vars

C9_Witness ==
    /\ previewError = MissingFileError
    /\ \E i \in 1..Len(orderedTracks) : ~orderedTracks[i].sourceFile
    /\ closeCalls = <<>> /\ calls = <<>>

\* the positions whose loop iteration computed a schedule in call c: the call is past
\* the decode and the prefetch, the track is not skipped, and no earlier iteration threw
scheduledPos(c) ==
    IF calls[c].pc \in {"done", "threw"}
    THEN {i \in 1..Len(orderedTracks) :
             ~skipped(i) /\ i <= firstRaise /\ (i > 1 => i - 1 <= Len(transitions))}
    ELSE {}

\* the plan satisfies the data-model invariants: crossfade > 0 and
\* 0 <= transition_start_time <= duration of the outgoing track
validPlan ==
    \A k \in 1..Len(transitions) :
        /\ OrElse(transitions[k].crossfade_duration_sec, DefaultCrossfadeSec) > 0
        /\ OrElse(transitions[k].transition_start_time, 0) >= 0
        /\ k <= Len(orderedTracks)
        /\ OrElse(transitions[k].transition_start_time, 0) <= duration(k)

\* every transition_end_time given lies in the outgoing track, at or after the
\* transition start
validEnds ==
    \A k \in 1..Len(transitions) :
        transitions[k].transition_end_time # Null =>
            /\ OrElse(transitions[k].transition_start_time, 0)
                  <= transitions[k].transition_end_time[1]
            /\ k <= Len(orderedTracks)
            /\ transitions[k].transition_end_time[1] <= duration(k)

\* C10: for every adjacent pair of started tracks the outgoing source stops no later
\* than the mix time at which the incoming track reaches full gain, that is
\* mixStartTime of the incoming track + min(crossfade, its remaining buffer).
C10_ReplaceNotOverlap ==
    \A s, u \in started :
        (s.kind = "track" /\ u.kind = "track" /\ s.ctx = u.ctx /\ u.pos = s.pos + 1)
            => s.stopCtx + skipTo
                 <= mixStartTime[u.pos]
                    + Min(OrElse(transitions[s.pos].crossfade_duration_sec, DefaultCrossfadeSec),
                          duration(u.pos) - u.bufferOffset)

\* C11: for every segment playPreview computes, playDuration is never negative, and
\* for a segment with an outgoing transition playDuration is at most
\* transitionEndTime - bufferOffset (floored at 0), whatever bufferOffset is.
C11_PlayDurationFloor ==
    \A c \in 1..Len(calls) : \A i \in scheduledPos(c) :
        /\ playDuration(i) >= 0
        /\ hasOutgoing(i) => playDuration(i) <= Max(0, tEnd(i) - bufferOffset(i))

\* the track sources started on behalf of a call
trackSourcesStarted == {s \in started : s.kind = "track"}

\* the automation events of a gain timeline, as a set
eventsOf(s) == {s.gain[j] : j \in 1..Len(s.gain)}

\* C12: in a plan with valid transition times, for every started track with an outgoing
\* transition, at every position, whose ramp-out lies after the skip point: the gain is set to 1 at rampStart =
\* mixStartTime[i] + transition_start_time and ramps to 0 at a time between rampStart
\* and rampEnd (transition_end_time when present, else rampStart + crossfade), and
\* that time is not after the source stops.
C12_RampOut ==
    \A s \in trackSourcesStarted :
        LET i == s.pos
            rs == mixStartTime[i] + OrElse(transitions[i].transition_start_time, 0)
            re == IF transitions[i].transition_end_time # Null
                  THEN transitions[i].transition_end_time[1]
                  ELSE rs + OrElse(transitions[i].crossfade_duration_sec, DefaultCrossfadeSec)
        IN (validPlan /\ validEnds /\ hasOutgoing(i) /\ rs >= skipTo) =>
              /\ GainEvent("set", One, rs - skipTo) \in eventsOf(s)
              /\ \E e \in eventsOf(s) :
                    /\ e.op = "ramp" /\ e.value = Zero
                    /\ rs - skipTo <= e.time /\ e.time <= re - skipTo
                    /\ e.time <= s.stopCtx

\* C13: in a plan with valid transition times, for every started track at position
\* i > 1 that starts at or after the skip
\* point (and whose ramp-out, if any, begins after its fade-in is over): the gain is
\* set to 0 at the track's start and ramps to 1 at start + min(crossfade of the
\* incoming transition, duration - bufferOffset), no other automation event falls
\* inside the rise, and every event between the end of the rise and the start of the
\* track's ramp-out has value 1.
C13_FadeInThenHold ==
    \A s \in trackSourcesStarted :
        LET i == s.pos
            fadeInEnd == s.startCtx
                         + Min(OrElse(transitions[i - 1].crossfade_duration_sec,
                                      DefaultCrossfadeSec),
                               duration(i) - s.bufferOffset)
            rs == toCtx(mixStartTime[i] + OrElse(transitions[i].transition_start_time, 0))
        IN (validPlan /\ validEnds /\ i > 1 /\ mixStartTime[i] >= skipTo
              /\ (hasOutgoing(i) => fadeInEnd <= rs)) =>
              /\ GainEvent("set", Zero, s.startCtx) \in eventsOf(s)
              /\ GainEvent("ramp", One, fadeInEnd) \in eventsOf(s)
              /\ \A e \in eventsOf(s) :
                    /\ ~(s.startCtx < e.time /\ e.time < fadeInEnd)
                    /\ (fadeInEnd < e.time /\ (hasOutgoing(i) => e.time < rs))
                          => e.value = One

\* a gain value within [0, 1]
inUnit(g) == g[2] > 0 /\ 0 <= g[1] /\ g[1] <= g[2]

\* C14: for every plan that satisfies the data-model invariants, every skip setting
\* and every track position playPreview schedules, each value it applies to the gain
\* (the initial gainAtMixTime(i, skipTo) and every set/ramp value) lies in [0, 1].
C14_GainInUnit ==
    validPlan =>
        \A c \in 1..Len(calls) : \A i \in scheduledPos(c) :
            /\ inUnit(gainAtMixTime(i, skipTo))
            /\ \A j \in 1..Len(gainEvents(i)) : inUnit(gainEvents(i)[j].value)

C14_Witness ==
    /\ validPlan /\ previewStartFromFirstTransition /\ skipTo > 0
    /\ \E s \in trackSourcesStarted : s.pos = 1 /\ s.gain[1].value[1] = s.gain[1].value[2]
    /\ \E s \in trackSourcesStarted : s.pos = 2 /\ Len(s.gain) = 5 /\ s.gain[1].value[1] = 0

\* C15: the mix offsets of playPreview and of the render start at 0, have one entry
\* more than there are transitions, each is the one before plus that transition's
\* transition_start_time, and they never decrease when no start time is negative;
\* a track started at or after the skip point starts at its offset.
C15_MixStartTimes ==
    /\ Len(mixStartTime) = Len(transitions) + 1
    /\ mixStartTime[1] = 0
    /\ \A k \in 1..Len(transitions) :
          mixStartTime[k + 1]
            = mixStartTime[k] + OrElse(transitions[k].transition_start_time, 0)
    /\ (\A k \in 1..Len(transitions) : OrElse(transitions[k].transition_start_time, 0) >= 0)
          => \A k \in 1..Len(transitions) : mixStartTime[k] <= mixStartTime[k + 1]
    /\ Len(orderedTracks) # 0 => mixStartTimeSec = mixStartTime
    /\ \A s \in trackSourcesStarted :
          mixStartTime[s.pos] >= skipTo => s.startCtx = toCtx(mixStartTime[s.pos])

C15_Witness ==
    /\ Len(mixStartTime) = 3 /\ mixStartTime[2] = 3 /\ mixStartTime[3] = 9
    /\ \E s \in trackSourcesStarted : s.pos = 3 /\ s.startCtx = 9

\* C16: when some transition_start_time is negative (the mix offsets would decrease),
\* playPreview starts no source, stores none and does not report the preview as
\* playing.
C16_DecreasingRejected ==
    (\E k \in 1..Len(transitions) : OrElse(transitions[k].transition_start_time, 0) < 0)
        => /\ started = {} /\ scheduledSourcesRef = {} /\ ~isPreviewPlaying
           /\ \A c \in 1..Len(calls) : calls[c].pc \notin {"done", "threw"}

\* C17: a track started at position i > 1 whose incoming transition carries an
\* incoming_start_offset is started with exactly that bufferOffset, with skip mode
\* on or off.
C17_IncomingOffset ==
    \A s \in trackSourcesStarted :
        (s.pos > 1 /\ transitions[s.pos - 1].incoming_start_offset # Null)
            => s.bufferOffset = transitions[s.pos - 1].incoming_start_offset[1]

C17_Witness ==
    /\ previewStartFromFirstTransition /\ skipTo > 0
    /\ \E s \in trackSourcesStarted :
          /\ s.pos = 2 /\ transitions[1].incoming_start_offset = Some(5)
          /\ s.bufferOffset = 5
    /\ \E s \in trackSourcesStarted :
          /\ s.pos = 3 /\ transitions[2].incoming_start_offset = Some(5)
          /\ mixStartTime[3] < skipTo /\ skipTo - mixStartTime[3] # 5
          /\ s.bufferOffset = 5

\* C18: no source is started earlier than the reference instant now (time 0), and in
\* skip-to-first-transition mode with a first transition that starts at or after the
\* start of the first track, the track at position 2 starts exactly at now and the
\* track at position 1, if it is started, starts at now from bufferOffset
\* skipTo - mixStartTime[1].
C18_SkipStartsAtNow ==
    /\ \A s \in started : s.startCtx >= 0
    /\ (/\ previewStartFromFirstTransition /\ Len(mixStartTime) > 1
        /\ OrElse(transitions[1].transition_start_time, 0) >= 0)
          => /\ skipTo = mixStartTime[2]
             /\ \A s \in trackSourcesStarted :
                   /\ s.pos = 2 => s.startCtx = 0
                   /\ s.pos = 1 => /\ s.startCtx = 0
                                   /\ s.bufferOffset = skipTo - mixStartTime[1]

C18_Witness ==
    /\ previewStartFromFirstTransition /\ skipTo = 3
    /\ \E s \in trackSourcesStarted : s.pos = 1 /\ s.startCtx = 0 /\ s.bufferOffset = 3
    /\ \E s \in trackSourcesStarted : s.pos = 2 /\ s.startCtx = 0
    /\ \E s \in trackSourcesStarted : s.pos = 3 /\ s.startCtx > 0

\* C19: once a call has scheduled, a track whose window
\* [mixStartTime[i], mixStartTime[i] + duration) ends at or before skipTo has no
\* source, and a track whose window starts before skipTo and ends after it is
\* started at now with bufferOffset skipTo - mixStartTime[i] (or the
\* incoming_start_offset that overrides it) and plays at most duration - bufferOffset;
\* when the call scheduled without throwing, every such track has its source.
C19_SkipWindows ==
    \A c \in 1..Len(calls) : calls[c].pc \in {"done", "threw"} =>
        \A i \in 1..Len(orderedTracks) :
            LET startMix == mixStartTime[i]
                endMix == mixStartTime[i] + duration(i)
                mine == {s \in trackSourcesStarted : s.ctx = c /\ s.pos = i}
                override == i > 1 /\ transitions[i - 1].incoming_start_offset # Null
            IN /\ endMix <= skipTo => mine = {}
               /\ (startMix < skipTo /\ skipTo < endMix) =>
                     /\ calls[c].pc = "done" => mine # {}
                     /\ \A s \in mine :
                           /\ s.startCtx = 0
                           /\ s.bufferOffset =
                                 IF override THEN transitions[i - 1].incoming_start_offset[1]
                                 ELSE skipTo - startMix
                           /\ s.playDuration <= duration(i) - s.bufferOffset
                           /\ ~hasOutgoing(i) => s.playDuration = duration(i) - s.bufferOffset

C19_Witness ==
    /\ previewStartFromFirstTransition /\ skipTo = 6
    /\ \E c \in 1..Len(calls) : calls[c].pc = "done"
    /\ duration(1) <= skipTo /\ ~(\E s \in trackSourcesStarted : s.pos = 1)
    /\ \E s \in trackSourcesStarted :
          /\ s.pos = 3 /\ mixStartTime[3] = 4 /\ duration(3) = 10
          /\ s.startCtx = 0 /\ s.bufferOffset = 2 /\ s.playDuration = 8

\* C20: a playPreview call that has decoded every track and waits for a cue asset
\* eventually runs its track loop (and starts the track segments), however long the
\* cue fetch takes and even if it never completes.
C20_TracksNotBlockedByCues ==
    \A c \in 1..MaxCalls :
        [](  (c <= Len(calls) /\ calls[c].pc = "sfx")
             => <>(c <= Len(calls) /\ calls[c].pc \in {"done", "threw"}))

\* the frequency events of a source, as a set
freqOf(s) == {s.freq[j] : j \in 1..Len(s.freq)}

\* the automation event of ev in force just before time t: the last one, in time
\* order and then call order, scheduled before t
inForceBefore(ev, t) ==
    LET B == {j \in 1..Len(ev) : ev[j].time < t}
    IN ev[CHOOSE j \in B :
             \A k \in B : ev[k].time < ev[j].time \/ (ev[k].time = ev[j].time /\ k <= j)]

\* C21: in a plan with valid transition times, for every started track at position i > 1 that starts at or after the skip
\* point, a middle track with an outgoing transition included, the filter is a
\* low-pass whose frequency is set to 500 Hz at the track's start and ramps to
\* 20000 Hz at start + the gain fade-in length.
C21_EntrySweep ==
    \A s \in trackSourcesStarted :
        (validPlan /\ validEnds /\ s.pos > 1 /\ mixStartTime[s.pos] >= skipTo) =>
            /\ s.filterType = "lowpass"
            /\ FreqEvent("set", MuffledHz, s.startCtx) \in freqOf(s)
            /\ FreqEvent("ramp", OpenHz,
                         s.startCtx
                         + Min(OrElse(transitions[s.pos - 1].crossfade_duration_sec,
                                      DefaultCrossfadeSec),
                               duration(s.pos) - s.bufferOffset)) \in freqOf(s)

\* C22: in a plan with valid transition times, for every started track with an outgoing transition whose rampStart lies
\* after now, the filter is fully open just before rampStart (a low-pass at 20000 Hz
\* or a high-pass at its lowest corner, 30 Hz), and the only events at or after
\* rampStart are the rise of the high-pass corner from 30 Hz at rampStart to 1800 Hz.
C22_ExitSweep ==
    \A s \in trackSourcesStarted :
        LET rs == toCtx(mixStartTime[s.pos]
                        + OrElse(transitions[s.pos].transition_start_time, 0))
            before == inForceBefore(s.freq, rs)
        IN (validPlan /\ validEnds /\ hasOutgoing(s.pos) /\ rs > 0) =>
              /\ \/ s.filterType = "lowpass" /\ before.value = OpenHz
                 \/ s.filterType = "highpass" /\ before.value <= BassCutLowHz
              /\ \A e \in freqOf(s) :
                    e.time >= rs => \/ e = FreqEvent("set", BassCutLowHz, rs)
                                    \/ e.op = "ramp" /\ e.value = BassCutHighHz

\* C23: when the ended event of the last track's source drops isPreviewPlaying on a
\* running session, no source of that session is still sounding: every source of the
\* context still started was due to stop no later than the last track's source.
C23_CompletionIsLast ==
    [][\A s \in started :
          (isLastTrack(s) /\ isOpen(s.ctx) /\ s \notin started' /\ s \notin stopped'
             /\ isPreviewPlaying /\ ~isPreviewPlaying')
              => \A u \in started' : u.ctx = s.ctx => u.stopCtx <= s.stopCtx]_vars

\* the transitions whose sound is not "none"
withSound == {k \in 1..Len(transitions) : soundType(k) # "none"}

\* C24: the step in which a call finishes scheduling starts exactly one cue for each
\* transition whose sound is not "none" and whose clip was fetched, at
\* mixStartTime[k + 1], and no other cue; and when every transition has the sound
\* "none", no call ever waits for a cue asset and no cue is started.
C24_CuesPerTransition ==
    /\ [][\A c \in 1..Len(calls) :
            (calls[c].pc # "done" /\ calls'[c].pc = "done") =>
                LET cues == {s \in started' \ started : s.kind = "sfx"}
                    due == {k \in withSound : soundType(k) \in calls'[c].sfxCache}
                IN /\ Cardinality(cues) = Cardinality(due)
                   /\ \A k \in due : \E s \in cues :
                         /\ s.ctx = c /\ s.pos = k
                         /\ s.startCtx = toCtx(mixStartTime[k + 1])]_vars
    /\ [](withSound = {} =>
            /\ \A c \in 1..Len(calls) : calls[c].pc # "sfx" /\ calls[c].sfxCache = {}
            /\ \A s \in started : s.kind # "sfx")

C24_Witness ==
    /\ Len(transitions) = 2 /\ withSound = {1, 2}
    /\ \E c \in 1..Len(calls) :
          /\ calls[c].pc = "done"
          /\ \E s \in started : s.ctx = c /\ s.kind = "sfx" /\ s.pos = 1 /\ s.startCtx = 4
          /\ \E s \in started : s.ctx = c /\ s.kind = "sfx" /\ s.pos = 2 /\ s.startCtx = 8

\* the track segments the plan gets when nothing goes wrong with the cue assets
expectedTracks(c) ==
    {trackSource(c, i) : i \in {j \in 1..Len(orderedTracks) : ~skipped(j) /\ j < firstRaise}}

\* C25: in the step in which a call leaves the decode or the cue prefetch for the
\* track loop, the track segments started (start time, bufferOffset, playDuration,
\* gain and filter events) are those the plan defines, whatever cue fetches failed;
\* unless the track loop itself throws, the call ends playing with those segments
\* stored, and the cues started are those of the sounds that were fetched.
C25_CueFailureHarmless ==
    [][\A c \in 1..Len(calls) :
          (calls[c].pc \in {"decode", "sfx"} /\ calls'[c].pc \in {"done", "threw"}) =>
              LET new == started' \ started
              IN /\ {s \in new : s.kind = "track"} = expectedTracks(c)
                 /\ firstRaise > Len(orderedTracks) =>
                       /\ calls'[c].pc = "done" /\ isPreviewPlaying'
                       /\ scheduledSourcesRef' = new
                       /\ \A k \in withSound :
                             (\E s \in new : s.kind = "sfx" /\ s.pos = k)
                                <=> soundType(k) \in calls'[c].sfxCache]_vars

C25_Witness ==
    /\ withSound # {} /\ isPreviewPlaying
    /\ \E c \in 1..Len(calls) :
          /\ calls[c].pc = "done" /\ calls[c].sfxCache = {}
          /\ scheduledSourcesRef = expectedTracks(c)
          /\ Cardinality(expectedTracks(c)) = 2
          /\ expectedTracks(c) \subseteq started

\* C26: within a call a sound id is fetched only while it is not in the cache, the
\* cache changes only by gaining the sound id whose fetch completed, and every cue
\* started is of a sound id held in the cache (the one clip of that id).
C26_OneClipPerSound ==
    /\ [](\A c \in 1..Len(calls) :
            /\ calls[c].pc = "sfx" => soundType(calls[c].k) \notin calls[c].sfxCache
            /\ \A s \in started : (s.ctx = c /\ s.kind = "sfx")
                                        => soundType(s.pos) \in calls[c].sfxCache)
    /\ [][\A c \in 1..Len(calls) :
            calls'[c].sfxCache # calls[c].sfxCache =>
                /\ calls[c].pc = "sfx"
                /\ soundType(calls[c].k) \notin calls[c].sfxCache
                /\ calls'[c].sfxCache = calls[c].sfxCache \cup {soundType(calls[c].k)}]_vars

C26_Witness ==
    /\ Cardinality(withSound) = 2 /\ soundType(1) = soundType(2)
    /\ \E c \in 1..Len(calls) :
          /\ calls[c].pc = "done" /\ calls[c].sfxCache = {soundType(1)}
          /\ Cardinality({s \in started : s.ctx = c /\ s.kind = "sfx"}) = 2

\* C27: whenever there is one transition less than there are ordered tracks, the mix
\* duration is the last mix offset plus the duration_sec of the last ordered track;
\* for durations [200, 180, 220] and transition starts [150, 140] the mix offsets
\* are [0, 150, 290] and the mix duration is 510.
C27_MixDuration ==
    /\ (Len(orderedTracks) # 0 /\ Len(transitions) = Len(orderedTracks) - 1) =>
          mixDurationSec = mixStartTime[Len(orderedTracks)]
                           + OrElse(orderedTracks[Len(orderedTracks)].duration_sec, 0)
    /\ (analyzedTracks = ScenarioA.tracks /\ mixPlan = ScenarioA.plan) =>
          /\ mixStartTime = <<0, 150, 290>>
          /\ mixStartTimeSec = <<0, 150, 290>>
          /\ mixDurationSec = 510

C27_Witness ==
    /\ analyzedTracks = ScenarioA.tracks /\ mixPlan = ScenarioA.plan
    /\ ~previewStartFromFirstTransition
    /\ \E s \in trackSourcesStarted : s.pos = 3 /\ s.startCtx = 290 /\ s.playDuration = 220

\* equality of two gain values
sameGain(x, y) == x[1] * y[2] = y[1] * x[2]

\* The value of an automated parameter at time t, as the Web Audio timeline defines
\* it: the events are ordered by time and then by call; before a ramp event the
\* value runs linearly from the previous event's value to the ramp's value; otherwise
\* it stays at the value of the last event at or before t.
gainAt(ev, t) ==
    LET B == {j \in 1..Len(ev) : ev[j].time <= t}
        A == {j \in 1..Len(ev) : ev[j].time > t}
        p == ev[CHOOSE j \in B :
                   \A k \in B : ev[k].time < ev[j].time \/ (ev[k].time = ev[j].time /\ k <= j)]
        n == ev[CHOOSE j \in A :
                   \A k \in A : ev[k].time > ev[j].time \/ (ev[k].time = ev[j].time /\ k >= j)]
    IN IF A # {} /\ n.op = "ramp"
       THEN <<p.value[1] * n.value[2] * (n.time - p.time)
                + (n.value[1] * p.value[2] - p.value[1] * n.value[2]) * (t - p.time),
              p.value[2] * n.value[2] * (n.time - p.time)>>
       ELSE p.value

\* C28: with two tracks, crossfade_duration_sec 16 and transition_start_time 180 on
\* a 200 s outgoing track, no transition_end_time and no skip: the outgoing track's
\* gain is 1 at every second up to mix time 180 and falls linearly to 0 at 196, where
\* its source stops; the incoming track starts at 180 and its gain rises linearly
\* from 0 at its local time 0 to 1 at its local time 16, and stays 1.
C28_ScenarioB ==
    (analyzedTracks = ScenarioB.tracks /\ mixPlan = ScenarioB.plan
        /\ ~previewStartFromFirstTransition) =>
        \A s \in trackSourcesStarted :
            /\ s.pos = 1 =>
                  /\ s.startCtx = 0 /\ s.stopCtx = 196
                  /\ \A t \in 0..180 : sameGain(gainAt(s.gain, t), One)
                  /\ \A t \in 180..196 : sameGain(gainAt(s.gain, t), <<196 - t, 16>>)
            /\ s.pos = 2 =>
                  /\ s.startCtx = 180 /\ s.bufferOffset = 0
                  /\ \A u \in 0..16 : sameGain(gainAt(s.gain, 180 + u), <<u, 16>>)
                  /\ \A u \in 16..200 : sameGain(gainAt(s.gain, 180 + u), One)

C28_Witness ==
    /\ analyzedTracks = ScenarioB.tracks /\ mixPlan = ScenarioB.plan
    /\ ~previewStartFromFirstTransition
    /\ \E s \in trackSourcesStarted : s.pos = 1 /\ sameGain(gainAt(s.gain, 188), <<1, 2>>)
    /\ \E s \in trackSourcesStarted : s.pos = 2 /\ sameGain(gainAt(s.gain, 188), <<1, 2>>)

\* C29: no cue is started at a time before the reference instant now (time 0); once
\* a call has scheduled, a transition whose sound was fetched has no cue when its
\* placement mixStartTime[k + 1] lies before the skip point, and has its cue at
\* mixStartTime[k + 1] - skipTo otherwise, at now when placed exactly at the skip
\* point.
C29_NoLateCue ==
    /\ \A s \in started : s.kind = "sfx" => s.startCtx >= 0
    /\ \A c \in 1..Len(calls) : calls[c].pc = "done" =>
          \A k \in withSound : soundType(k) \in calls[c].sfxCache =>
              LET cues == {s \in started : s.ctx = c /\ s.kind = "sfx" /\ s.pos = k}
              IN IF mixStartTime[k + 1] < skipTo
                 THEN cues = {}
                 ELSE /\ cues # {}
                      /\ \A s \in cues : s.startCtx = mixStartTime[k + 1] - skipTo

C29_Witness ==
    /\ previewStartFromFirstTransition /\ skipTo = 6
    /\ withSound = {1, 2} /\ mixStartTime[3] < skipTo
    /\ \E c \in 1..Len(calls) :
          /\ calls[c].pc = "done" /\ calls[c].sfxCache = {soundType(1)}
          /\ \E s \in started : s.kind = "sfx" /\ s.pos = 1 /\ s.startCtx = 0
          /\ ~(\E s \in started : s.kind = "sfx" /\ s.pos = 2)

\* C30: when there are fewer transitions than ordered tracks minus one, no playPreview
\* call throws in its track loop, and a call that has scheduled has started every
\* track and reports the preview as playing.
C30_MissingTransitionTolerated ==
    (mixPlan # Null /\ Len(transitions) < Len(orderedTracks) - 1) =>
        \A c \in 1..Len(calls) :
            /\ calls[c].pc # "threw"
            /\ (calls[c].pc = "done" /\ audioContextRef = c /\ scheduledSourcesRef # {}) =>
                  \A i \in 1..Len(orderedTracks) :
                      \E s \in scheduledSourcesRef : s.kind = "track" /\ s.pos = i

\* C32: in a plan with valid transition times, for every track with an outgoing
\* transition, at every position whose schedule playPreview computed, the ramp-out
\* interval is well formed on the mix timeline: mixStartTime[i] <= rampStart <= rampEnd,
\* and when transition_end_time is supplied rampEnd is the mix-timeline instant of the
\* transition's end, mixStartTime[i] + transition_end_time.
C32_RampIntervalWellFormed ==
    \A c \in 1..Len(calls) : \A i \in scheduledPos(c) :
        (validPlan /\ validEnds /\ hasOutgoing(i)) =>
            /\ mixStartTime[i] <= rampStart(i)
            /\ rampStart(i) <= rampEnd(i)
            /\ transitions[i].transition_end_time # Null =>
                  rampEnd(i) = mixStartTime[i] + transitions[i].transition_end_time[1]

\* C33: isPreviewPlaying = TRUE implies that audioContextRef holds an open context
\* and that scheduledSourcesRef holds sources of that context; and isPreviewPlaying =
\* FALSE implies that no source of the session audioContextRef refers to is sounding.
C33_FlagMatchesSession ==
    /\ isPreviewPlaying =>
          /\ audioContextRef # 0
          /\ isOpen(audioContextRef)
          /\ scheduledSourcesRef # {}
          /\ \A s \in scheduledSourcesRef : s.ctx = audioContextRef
    /\ ~isPreviewPlaying =>
          ~(\E s \in scheduledSourcesRef : s.ctx = audioContextRef /\ audible(s))

\* C31: whenever mixPlan is non-null, every index in mixPlan.order refers to an
\* existing entry of analyzedTracks, after any interleaving of handleAnalyze,
\* handleGenerateMixPlan, removeSlot and the responses they wait for.
C31_OrderRefersToTracks ==
    mixPlan # Null =>
        \A i \in 1..Len(mixPlan[1].order) : mixPlan[1].order[i] \in 1..Len(analyzedTracks)

\* C34: whenever a preview session is active (the preview is reported as playing, or
\* a started source can still sound), mixPlan is non-null, so that the section with
\* the Stop button is rendered.
C34_ActivePreviewHasPlan ==
    (isPreviewPlaying \/ \E s \in started : audible(s)) => mixPlan # Null

countOf(seq, v) == Cardinality({j \in 1..Len(seq) : seq[j] = v})

\* C35: every /analyze-batch request sent with a layout has as many "file" entries in
\* the layout as files appended and as many "youtube" entries as URLs appended; and
\* the response sets the i-th analysed track's sourceFile from the i-th submitted slot.
C35_RequestSelfConsistent ==
    [][/\ (analyzeRequest' # Null /\ analyzeRequest'[1].layout # Null) =>
             LET r == analyzeRequest'[1]
             IN /\ countOf(r.layout[1], "file") = Len(r.files)
                /\ countOf(r.layout[1], "youtube") = Len(r.urls)
       /\ (analyzeRequest # Null /\ analyzedTracks' # analyzedTracks /\ analyzedTracks' # <<>>) =>
             LET content == analyzeRequest[1].content
             IN /\ Len(analyzedTracks') = Len(content)
                /\ \A j \in 1..Len(content) :
                      analyzedTracks'[j].sourceFile = (content[j].file # NoFile)]_vars

\* C36: the slot list is never empty after any sequence of addSlot, removeSlot and
\* updateSlot, and removeSlot on the only remaining slot leaves the list unchanged.
C36_SlotsNeverEmpty ==
    /\ [](Len(slots) >= 1)
    /\ [][\A id \in slotIds(slots) :
             (Len(slots) = 1 /\ removeSlot(id)) => slots' = slots]_vars

C36_Witness ==
    /\ Len(slots) = 1 /\ slots[1].id = 2 /\ slots[1].file # NoFile
    /\ analyzedTracks = <<>> /\ mixPlan = Null

\* C37: in every step, if loadingStemTransitionIndex names a transition i whose
\* stem-preview request is in flight and that request is still in flight after the
\* step, the marker still names i: starting or finishing a request for another
\* transition j neither clears nor overwrites the marker of i.
C37_StemMarkerTracksRequest ==
    [][\A i \in stemInFlight :
          (loadingStemTransitionIndex = i /\ i \in stemInFlight')
              => loadingStemTransitionIndex' = i]_vars

\* C38: at most one commentary line plays at a time, and commentaryAudioRef refers to
\* the most recently started line, or is null when that line is not playing (it has
\* ended, or was dropped by a call whose clip did not decode).
C38_OneCommentaryLine ==
    /\ Cardinality({a \in 1..Len(audios) : audios[a] = "playing"}) <= 1
    /\ commentaryAudioRef # 0 => commentaryAudioRef = Len(audios)
    /\ commentaryAudioRef = 0 => (audios = <<>> \/ audios[Len(audios)] # "playing")

====
